---- MODULE Spec2Model ----
(***************************************************************************)
(* Attribution pipeline of HaenselDataEngg: the journey builder            *)
(* (build_customer_journey.py), the scoring client (send_to_api.py) and    *)
(* the attribution processor (attribution_processor.py) over the SQLite    *)
(* store.                                                                  *)
(*                                                                         *)
(* Encoding of values.  ISO dates 'YYYY-MM-DD' are day numbers 1..MaxDate, *)
(* times 'HH:00:00' are hours 0..MaxTime (0 <= MaxTime <= 23), so that the *)
(* string order of the source is the integer order here.  A nullable value *)
(* is a tuple: << >> is NULL / None, <<v>> is the value v.  REAL columns   *)
(* (cost, revenue, ihc, ihc_revenue) are fixed-point numbers in tenths:    *)
(* 5 is 0.5, 100 is 10.0, 10000 is 1000.0.                                 *)
(***************************************************************************)
EXTENDS Integers, Sequences, FiniteSets, Bags, TLC

MaxDate == 2
MaxTime == 1
MaxRetry == 3
MaxOps == 3
MaxBatch == 2

VARIABLES
    session_sources,               \* table session_sources
    session_costs,                 \* table session_costs
    conversions,                   \* table conversions
    attribution_customer_journey,  \* table attribution_customer_journey (rowid order)
    channel_reporting,             \* table channel_reporting (bag of rows)
    start_date, end_date,          \* arguments of build_journeys
    journeys_df,                   \* DataFrame returned by build_journeys
    formatted_journeys,            \* list returned by format_journey_data
    jpc,                           \* position in the build/format sequence
    retry_count,                   \* argument of send_to_api
    attempt,                       \* loop variable of send_to_api
    responses,                     \* outcome of every requests.post so far
    sleep_calls,                   \* number of time.sleep calls so far
    send_result,                   \* value returned by send_to_api
    spc,                           \* position inside send_to_api
    ops,                           \* processor calls made so far, with arguments
    reporting_at_start,            \* channel_reporting as the store held it at first
    report,                        \* rows written by export_channel_report
    pc,                            \* position inside main()
    batch_size,                    \* config.api.batch_size
    loop_i,                        \* loop variable i of the batch loop of main()
    events,                        \* calls made by main() so far, in order
    submitted,                     \* the batches handed to send_to_api so far
    results,                       \* what send_to_api returned for each of them
    log_at_start,                  \* attribution_customer_journey before the run
    run_error,                     \* the failure met by the run, if any
    config_retry_count,            \* config.api.retry_count
    validated_df,                  \* DataFrame handed to _validate_journeys
    validation                     \* how _validate_journeys ended

vars == << session_sources, session_costs, conversions,
           attribution_customer_journey, channel_reporting,
           start_date, end_date, journeys_df, formatted_journeys, jpc,
           retry_count, attempt, responses, sleep_calls, send_result, spc,
           ops, reporting_at_start, report,
           pc, batch_size, loop_i, events, submitted, results, log_at_start,
           run_error, config_retry_count, validated_df, validation >>

dbVars == << session_sources, session_costs, conversions,
             attribution_customer_journey, channel_reporting >>
journeyVars == << start_date, end_date, journeys_df, formatted_journeys, jpc >>
sendVars == << retry_count, attempt, responses, sleep_calls, send_result, spc >>
procVars == << ops, reporting_at_start, report >>
mainVars == << pc, batch_size, loop_i, events, submitted, results, log_at_start,
              run_error, config_retry_count >>
validateVars == << validated_df, validation >>

----------------------------------------------------------------------------
(* Values                                                                  *)

NULL == << >>
NoneVal == "<None>"

Dates == 1..MaxDate
Times == 0..MaxTime
UserIds == {"u1", "u2"}
ChannelOrder == << "Organic", "Paid", "Social" >>
ConvOrder == << "c1", "c2", "c3" >>

\* Position of a text value in the collation order of its column.
Rank(order, x) == CHOOSE i \in 1..Len(order) : order[i] = x

\* SQL COALESCE(x, d)
Coalesce(x, d) == IF x = NULL THEN d ELSE x[1]
\* Python truthiness of an optional argument: None is falsy.
Truthy(x) == x # NULL
\* Python truthiness of current_conversion: None and '' are falsy.
TruthyStr(x) == x # NoneVal /\ x # ""
\* Python bool(int)
Bool(x) == x # 0

RECURSIVE Perms(_)
Perms(S) ==
    IF S = {} THEN { << >> }
    ELSE UNION { { <<x>> \o p : p \in Perms(S \ {x}) } : x \in S }

----------------------------------------------------------------------------
(* build_customer_journey.py: CustomerJourneyBuilder.build_journeys        *)

\* SQLite datetime(date || ' ' || time), in hours since day 0.
DateTime(d, t) == d * 24 + t

\* WHERE datetime(s.event_date || ' ' || s.event_time)
\*         <= datetime(c.conv_date || ' ' || c.conv_time)
\* Variant: the filter compares the dates only.
Causal_dateOnly(s, c) == s.event_date <= c.conv_date
Causal(s, c) == DateTime(s.event_date, s.event_time) <= DateTime(c.conv_date, c.conv_time)

\* if start_date and end_date: AND c.conv_date BETWEEN start_date AND end_date
\* Variant: the range excludes its end points.
DateFilter_exclusive(c, sd, ed) ==
    (Truthy(sd) /\ Truthy(ed)) => (sd[1] < c.conv_date /\ c.conv_date < ed[1])
DateFilter(c, sd, ed) ==
    (Truthy(sd) /\ Truthy(ed)) => (sd[1] <= c.conv_date /\ c.conv_date <= ed[1])

\* LEFT JOIN session_costs sc ON s.session_id = sc.session_id
CostOf(sid) ==
    IF \E sc \in session_costs : sc.session_id = sid
    THEN << (CHOOSE sc \in session_costs : sc.session_id = sid).cost >>
    ELSE NULL

\* One row of journey_data with the derived column time_to_conv (hours).
JourneyRow(c, s) ==
    [ conv_id |-> c.conv_id, user_id |-> c.user_id,
      conv_date |-> c.conv_date, conv_time |-> c.conv_time,
      revenue |-> c.revenue,
      session_id |-> s.session_id, channel_name |-> s.channel_name,
      event_date |-> s.event_date, event_time |-> s.event_time,
      holder_engagement |-> s.holder_engagement,
      closer_engagement |-> s.closer_engagement,
      impression_interaction |-> s.impression_interaction,
      cost |-> CostOf(s.session_id),
      time_to_conv |-> DateTime(c.conv_date, c.conv_time)
                       - DateTime(s.event_date, s.event_time) ]

\* FROM conversions c JOIN session_sources s ON c.user_id = s.user_id ... WHERE ...
JourneyData(sd, ed) ==
    { JourneyRow(c, s) : <<c, s>> \in
        { p \in conversions \X session_sources :
            /\ p[1].user_id = p[2].user_id
            /\ Causal(p[2], p[1])
            /\ DateFilter(p[1], sd, ed) } }

\* ORDER BY conv_id, event_date, event_time: a precedes-or-ties b.
\* Variant: ORDER BY event_date, event_time, without conv_id.
OrderByLeq_noConv(a, b) ==
    \/ a.event_date < b.event_date
    \/ a.event_date = b.event_date /\ a.event_time <= b.event_time
OrderByLeq(a, b) ==
    \/ Rank(ConvOrder, a.conv_id) < Rank(ConvOrder, b.conv_id)
    \/ /\ a.conv_id = b.conv_id
       /\ \/ a.event_date < b.event_date
          \/ a.event_date = b.event_date /\ a.event_time <= b.event_time

\* The orders ORDER BY may return: rows that tie come in any order.
Ordered(rows) ==
    { p \in Perms(rows) : \A i \in 1..Len(p) : \A j \in i..Len(p) : OrderByLeq(p[i], p[j]) }

build_journeys ==
    /\ jpc = "start"
    /\ \E df \in Ordered(JourneyData(start_date, end_date)) : journeys_df' = df
    /\ jpc' = "built"
    /\ UNCHANGED << start_date, end_date, formatted_journeys >>
    /\ UNCHANGED << dbVars, sendVars, procVars, mainVars, validateVars >>

----------------------------------------------------------------------------
(* send_to_api.py: IHCAttributionClient.format_journey_data                *)

\* df.sort_values(['conv_id', 'event_date', 'event_time']): a stable sort.
RECURSIVE InsertSorted(_, _)
InsertSorted(s, r) ==
    IF s = << >> THEN << r >>
    ELSE IF OrderByLeq(s[Len(s)], r) THEN Append(s, r)
    ELSE Append(InsertSorted(SubSeq(s, 1, Len(s) - 1), r), s[Len(s)])

RECURSIVE SortValues(_)
SortValues(df) ==
    IF df = << >> THEN << >>
    ELSE InsertSorted(SortValues(SubSeq(df, 1, Len(df) - 1)), df[Len(df)])

\* The session dict built for one row.
SessionDict(row) ==
    [ session_id |-> row.session_id,
      timestamp |-> << row.event_date, row.event_time >>,
      channel_label |-> row.channel_name,
      holder_engagement |-> Bool(row.holder_engagement),
      closer_engagement |-> Bool(row.closer_engagement),
      impression_interaction |-> Bool(row.impression_interaction) ]

\* The journey dict appended when a conversion's rows have been collected.
JourneyDict(current_conversion, current_sessions) ==
    [ conversion_id |-> current_conversion,
      session_id |-> current_sessions[1].session_id,
      timestamp |-> current_sessions[1].timestamp,
      channel_label |-> current_sessions[1].channel_label,
      holder_engagement |-> current_sessions[1].holder_engagement,
      closer_engagement |-> current_sessions[1].closer_engagement,
      conversion |-> IF current_sessions[Len(current_sessions)].closer_engagement
                     THEN 1 ELSE 0,
      impression_interaction |-> current_sessions[1].impression_interaction ]

\* if current_conversion and current_sessions: formatted_journeys.append(journey)
Flush(formatted, current_conversion, current_sessions) ==
    IF TruthyStr(current_conversion) /\ current_sessions # << >>
    THEN Append(formatted, JourneyDict(current_conversion, current_sessions))
    ELSE formatted

\* for _, row in df_sorted.iterrows(): ... followed by "Add the last conversion".
RECURSIVE FormatLoop(_, _, _, _, _)
FormatLoop(df_sorted, i, formatted, current_conversion, current_sessions) ==
    IF i > Len(df_sorted)
    THEN Flush(formatted, current_conversion, current_sessions)
    ELSE LET row == df_sorted[i] IN
         IF current_conversion # row.conv_id
         THEN FormatLoop(df_sorted, i + 1,
                         Flush(formatted, current_conversion, current_sessions),
                         row.conv_id, << SessionDict(row) >>)
         ELSE FormatLoop(df_sorted, i + 1, formatted, current_conversion,
                         Append(current_sessions, SessionDict(row)))

FormatJourneyData(df) == FormatLoop(SortValues(df), 1, << >>, NoneVal, << >>)

format_journey_data ==
    /\ jpc = "built"
    /\ formatted_journeys' = FormatJourneyData(journeys_df)
    /\ jpc' = "formatted"
    /\ UNCHANGED << start_date, end_date, journeys_df >>
    /\ UNCHANGED << dbVars, sendVars, procVars, mainVars, validateVars >>

----------------------------------------------------------------------------
(* Specification of the builder and the formatter over any store contents  *)

\* Engagement flags (holder, closer, impression) of the fixture rows.
FlagRows == { <<1, 0, 1>>, <<0, 1, 1>>, <<1, 1, 0>> }

SessionRow(sid, u, ch, d, t, f) ==
    [ session_id |-> sid, user_id |-> u, channel_name |-> ch,
      event_date |-> d, event_time |-> t,
      holder_engagement |-> f[1], closer_engagement |-> f[2],
      impression_interaction |-> f[3] ]

ConversionRow(cid, u, d, t, rev) ==
    [ conv_id |-> cid, user_id |-> u, conv_date |-> d, conv_time |-> t,
      revenue |-> rev ]

OptDates == { NULL } \cup { <<d>> : d \in Dates }

SendIdle ==
    /\ retry_count = 0 /\ attempt = 0 /\ responses = << >>
    /\ sleep_calls = 0 /\ send_result = NULL /\ spc = "idle"

ProcIdle == ops = << >> /\ reporting_at_start = EmptyBag /\ report = << >>

MainIdle ==
    /\ pc = "idle" /\ batch_size = 0 /\ loop_i = 0 /\ events = << >>
    /\ submitted = << >> /\ results = << >> /\ log_at_start = << >>
    /\ run_error = "none" /\ config_retry_count = 0

\* _validate_journeys was not called.
NotValidated == [ returned |-> FALSE, raised |-> "", warnings |-> {} ]

ValidateIdle ==
    /\ validated_df = [ columns |-> {}, rows |-> << >> ]
    /\ validation = NotValidated

InitJourney ==
    /\ \E u1 \in UserIds, u2 \in UserIds, d1 \in Dates, d2 \in Dates,
          t1 \in Times, t2 \in Times, f1 \in FlagRows, f2 \in {<<1, 0, 1>>, <<0, 1, 1>>} :
         session_sources =
            { SessionRow("s1", u1, "Organic", d1, t1, f1),
              SessionRow("s2", u2, "Paid", d2, t2, f2) }
    /\ session_costs = { [session_id |-> "s1", cost |-> 100] }
    /\ \E u2 \in UserIds, d1 \in Dates, d2 \in Dates, t1 \in Times, t2 \in Times :
         conversions =
            { ConversionRow("c1", "u1", d1, t1, 10000),
              ConversionRow("c2", u2, d2, t2, 2000) }
    /\ attribution_customer_journey = << >>
    /\ channel_reporting = EmptyBag
    /\ start_date \in OptDates
    /\ end_date \in OptDates
    /\ journeys_df = << >>
    /\ formatted_journeys = << >>
    /\ jpc = "start"
    /\ SendIdle
    /\ ProcIdle
    /\ MainIdle
    /\ ValidateIdle

NextJourney == build_journeys \/ format_journey_data

SpecJourney == InitJourney /\ [][NextJourney]_vars

----------------------------------------------------------------------------
(* send_to_api.py: IHCAttributionClient.send_to_api                        *)

\* One element of the "value" array of a response body.
Attribution(cid, sid, ihc) == [ conversion_id |-> cid, session_id |-> sid, ihc |-> ihc ]

\* JSON bodies the scoring service may deliver.
Bodies ==
    { [ statusCode |-> 200, value |-> << >> ],
      [ statusCode |-> 200, value |-> << Attribution("c1", "s1", 5) >> ],
      [ statusCode |-> 200, value |-> << Attribution("c1", "s1", 5),
                                         Attribution("c1", "s2", 5) >> ],
      [ statusCode |-> 200, value |-> << Attribution("c2", "s2", 10) >> ],
      [ statusCode |-> 500, value |-> << Attribution("c1", "s1", 5) >> ] }

HttpStatuses == { 200, 304, 400, 500 }

\* What one requests.post call can do: raise a RequestException (connection
\* error, timeout) or deliver a response with a status code and a JSON body.
TransportOutcomes ==
    { [ kind |-> "exception", status_code |-> 0, body |-> [ statusCode |-> 0, value |-> << >> ] ] }
    \cup { [ kind |-> "response", status_code |-> c, body |-> b ] :
             c \in HttpStatuses, b \in Bodies }

\* response.raise_for_status(): raises HTTPError for 4xx and 5xx.
RaiseForStatus(code) == 400 <= code /\ code < 600

\* The attempt ends in the except branch.
Raises(r) == r.kind = "exception" \/ RaiseForStatus(r.status_code)

\* if attempt < retry_count - 1: warn and sleep; else: give up
\* Variant: the bound of the test is retry_count.
RetryAgain_offByOne(att, k) == att < k
RetryAgain(att, k) == att < k - 1

\* Where the attempt with outcome r leaves the call, and what it returns.
\* Variant: a successful attempt does not return while attempts are left.
AfterPost_noReturn(r, att, k) ==
    IF RetryAgain(att, k) THEN [ pc |-> "sleep", result |-> NULL ]
    ELSE IF ~Raises(r) THEN [ pc |-> "done", result |-> << r.body >> ]
    ELSE [ pc |-> "done", result |-> NULL ]
AfterPost(r, att, k) ==
    IF ~Raises(r) THEN [ pc |-> "done", result |-> << r.body >> ]
    ELSE IF RetryAgain(att, k) THEN [ pc |-> "sleep", result |-> NULL ]
    ELSE [ pc |-> "done", result |-> NULL ]

\* for attempt in range(retry_count): falls off the end with None.
send_loop ==
    /\ spc = "loop"
    /\ IF attempt < retry_count
       THEN spc' = "post" /\ send_result' = send_result
       ELSE spc' = "done" /\ send_result' = NULL
    /\ UNCHANGED << retry_count, attempt, responses, sleep_calls >>
    /\ UNCHANGED << dbVars, journeyVars, procVars, mainVars, validateVars >>

\* try: requests.post(...); raise_for_status(); return response.json()
\* except RequestException: ...
send_post ==
    /\ spc = "post"
    /\ \E r \in TransportOutcomes :
         /\ responses' = Append(responses, r)
         /\ spc' = AfterPost(r, attempt, retry_count).pc
         /\ send_result' = AfterPost(r, attempt, retry_count).result
    /\ UNCHANGED << retry_count, attempt, sleep_calls >>
    /\ UNCHANGED << dbVars, journeyVars, procVars, mainVars, validateVars >>

\* time.sleep(retry_delay), then the next iteration
send_sleep ==
    /\ spc = "sleep"
    /\ sleep_calls' = sleep_calls + 1
    /\ attempt' = attempt + 1
    /\ spc' = "loop"
    /\ UNCHANGED << retry_count, responses, send_result >>
    /\ UNCHANGED << dbVars, journeyVars, procVars, mainVars, validateVars >>

DbEmpty ==
    /\ session_sources = {} /\ session_costs = {} /\ conversions = {}
    /\ attribution_customer_journey = << >> /\ channel_reporting = EmptyBag

JourneyIdle ==
    /\ start_date = NULL /\ end_date = NULL /\ journeys_df = << >>
    /\ formatted_journeys = << >> /\ jpc = "start"

InitSend ==
    /\ DbEmpty
    /\ JourneyIdle
    /\ ProcIdle
    /\ MainIdle
    /\ ValidateIdle
    /\ retry_count \in 0..MaxRetry
    /\ attempt = 0
    /\ responses = << >>
    /\ sleep_calls = 0
    /\ send_result = NULL
    /\ spc = "loop"

NextSend == send_loop \/ send_post \/ send_sleep

SpecSend == InitSend /\ [][NextSend]_vars

----------------------------------------------------------------------------
(* attribution_processor.py: AttributionProcessor                          *)

\* The row appended for one element of batch_response["value"].
AttributionRow(a) == [ conv_id |-> a.conversion_id, session_id |-> a.session_id, ihc |-> a.ihc ]

RECURSIVE AttributionData(_)
AttributionData(value) ==
    IF value = << >> THEN << >>
    ELSE << AttributionRow(Head(value)) >> \o AttributionData(Tail(value))

\* INSERT of rows into attribution_customer_journey.  The table is an
\* append-only log without a uniqueness constraint: every row is stored,
\* also one whose (conv_id, session_id) is already there.
InsertRows(table, rows) == table \o rows

\* Variant: the status of the outcome is not looked at.
ProcessBatch_noStatusCheck(acj, batch_response) ==
    InsertRows(acj, AttributionData(batch_response.value))
\* Variant: a row replaces the rows already stored for its (conv_id, session_id).
ProcessBatch_upsert(acj, batch_response) ==
    IF batch_response.statusCode # 200 THEN acj
    ELSE LET data == AttributionData(batch_response.value)
         IN InsertRows(SelectSeq(acj, LAMBDA old :
                          \A k \in DOMAIN data :
                              ~(data[k].conv_id = old.conv_id
                                /\ data[k].session_id = old.session_id)),
                       data)
\* Variant: a row whose (conv_id, session_id) is already stored is skipped.
ProcessBatch_dedup(acj, batch_response) ==
    IF batch_response.statusCode # 200 THEN acj
    ELSE InsertRows(acj,
            SelectSeq(AttributionData(batch_response.value), LAMBDA new :
                \A k \in DOMAIN acj :
                    ~(acj[k].conv_id = new.conv_id /\ acj[k].session_id = new.session_id)))
\* The table after process_batch(batch_response): nothing is written unless
\* statusCode is 200; df.to_sql(..., if_exists="append") adds the rows.
ProcessBatch(acj, batch_response) ==
    IF batch_response.statusCode # 200 THEN acj
    ELSE InsertRows(acj, AttributionData(batch_response.value))

process_batch ==
    /\ Len(ops) < MaxOps
    /\ \E batch_response \in Bodies :
         /\ attribution_customer_journey' =
               ProcessBatch(attribution_customer_journey, batch_response)
         /\ ops' = Append(ops, << "process_batch", batch_response >>)
    /\ UNCHANGED << session_sources, session_costs, conversions, channel_reporting >>
    /\ UNCHANGED << reporting_at_start, report >>
    /\ UNCHANGED << journeyVars, sendVars, mainVars, validateVars >>

\* Product of two fixed-point numbers (tenths).
Mul(a, b) == (a * b) \div 10

\* LEFT JOIN attribution_customer_journey acj ON ss.session_id = acj.session_id
\* Variant: the join lacks its ON condition.
AcjMatches_noCondition(ss) == attribution_customer_journey
AcjMatches(ss) ==
    SelectSeq(attribution_customer_journey, LAMBDA a : a.session_id = ss.session_id)

\* LEFT JOIN conversions c ON acj.conv_id = c.conv_id: c.revenue or NULL
RevenueOf(cid) ==
    IF \E c \in conversions : c.conv_id = cid
    THEN << (CHOOSE c \in conversions : c.conv_id = cid).revenue >>
    ELSE NULL

\* The joined rows that session ss contributes, reduced to the three summed
\* expressions COALESCE(sc.cost, 0), COALESCE(acj.ihc, 0) and
\* COALESCE(acj.ihc * c.revenue, 0).
RECURSIVE JoinedOf(_, _)
JoinedOf(ss, matches) ==
    IF matches = << >> THEN << >>
    ELSE << [ cost |-> Coalesce(CostOf(ss.session_id), 0),
              ihc |-> Head(matches).ihc,
              ihc_revenue |->
                 IF RevenueOf(Head(matches).conv_id) = NULL THEN 0
                 ELSE Mul(Head(matches).ihc, RevenueOf(Head(matches).conv_id)[1]) ] >>
         \o JoinedOf(ss, Tail(matches))

JoinedRows(ss) ==
    IF AcjMatches(ss) = << >>
    THEN << [ cost |-> Coalesce(CostOf(ss.session_id), 0), ihc |-> 0, ihc_revenue |-> 0 ] >>
    ELSE JoinedOf(ss, AcjMatches(ss))

RECURSIVE JoinedAll(_)
JoinedAll(sessions) ==
    IF sessions = {} THEN << >>
    ELSE LET ss == CHOOSE x \in sessions : TRUE
         IN JoinedRows(ss) \o JoinedAll(sessions \ {ss})

RECURSIVE SumCol(_, _)
SumCol(rows, col) ==
    IF rows = << >> THEN 0 ELSE Head(rows)[col] + SumCol(Tail(rows), col)

\* GROUP BY ss.channel_name, ss.event_date: the rows of daily_channels
DailyChannels ==
    { LET joined == JoinedAll({ ss \in session_sources :
                                  /\ ss.channel_name = k[1]
                                  /\ ss.event_date = k[2] })
      IN [ channel_name |-> k[1], date |-> k[2],
           cost |-> SumCol(joined, "cost"),
           ihc |-> SumCol(joined, "ihc"),
           ihc_revenue |-> SumCol(joined, "ihc_revenue") ]
      : k \in { << ss.channel_name, ss.event_date >> : ss \in session_sources } }

\* INSERT OR REPLACE of one row under PRIMARY KEY (channel_name, date)
\* Variant: the table has no primary key, the row is added.
InsertOrReplace_noKey(table, row) == table (+) SetToBag({row})
InsertOrReplace(table, row) ==
    LET kept == { r \in BagToSet(table) :
                    ~(r.channel_name = row.channel_name /\ r.date = row.date) }
    IN [ r \in kept |-> table[r] ] (+) SetToBag({row})

\* Variant: a row whose key is already stored is not written (INSERT OR IGNORE).
RECURSIVE InsertAll_keepExisting(_, _)
InsertAll_keepExisting(table, rows) ==
    IF rows = {} THEN table
    ELSE LET row == CHOOSE x \in rows : TRUE
         IN InsertAll_keepExisting(
               IF \E r \in BagToSet(table) :
                     r.channel_name = row.channel_name /\ r.date = row.date
               THEN table ELSE InsertOrReplace(table, row),
               rows \ {row})
RECURSIVE InsertAll(_, _)
InsertAll(table, rows) ==
    IF rows = {} THEN table
    ELSE LET row == CHOOSE x \in rows : TRUE
         IN InsertAll(InsertOrReplace(table, row), rows \ {row})

update_channel_reporting ==
    /\ Len(ops) < MaxOps
    /\ channel_reporting' = InsertAll(channel_reporting, DailyChannels)
    /\ ops' = Append(ops, << "update_channel_reporting" >>)
    /\ UNCHANGED << session_sources, session_costs, conversions,
                    attribution_customer_journey >>
    /\ UNCHANGED << reporting_at_start, report >>
    /\ UNCHANGED << journeyVars, sendVars, mainVars, validateVars >>

\* Floats of the report as fractions << numerator, denominator >>.
Inf == << 1, 0 >>
Zero == << 0, 1 >>
\* Python a / b; << 0, 0 >> stands for the failed division by zero.
Div(a, b) == IF b = 0 THEN << 0, 0 >> ELSE << a, b >>

\* row["cost"] / row["ihc"] if row["ihc"] > 0 else float("inf")
\* Variant: the guard tests cost instead of ihc.
CPO_guardOnCost(row) == IF row.cost > 0 THEN Div(row.cost, row.ihc) ELSE Inf
CPO(row) == IF row.ihc > 0 THEN Div(row.cost, row.ihc) ELSE Inf

\* row["ihc_revenue"] / row["cost"] if row["cost"] > 0 else 0
ROAS(row) == IF row.cost > 0 THEN Div(row.ihc_revenue, row.cost) ELSE Zero

ReportRow(row) ==
    [ channel_name |-> row.channel_name, date |-> row.date, cost |-> row.cost,
      ihc |-> row.ihc, ihc_revenue |-> row.ihc_revenue,
      CPO |-> CPO(row), ROAS |-> ROAS(row) ]

\* ORDER BY date, channel_name
ReportLeq(a, b) ==
    \/ a.date < b.date
    \/ a.date = b.date /\ Rank(ChannelOrder, a.channel_name) <= Rank(ChannelOrder, b.channel_name)

\* SELECT * FROM channel_reporting ORDER BY date, channel_name
RECURSIVE SelectOrdered(_)
SelectOrdered(table) ==
    IF table = EmptyBag THEN << >>
    ELSE LET first == CHOOSE r \in BagToSet(table) :
                         \A q \in BagToSet(table) : ReportLeq(r, q)
         IN << first >> \o SelectOrdered(table (-) SetToBag({first}))

RECURSIVE ApplyReportRow(_)
ApplyReportRow(df) ==
    IF df = << >> THEN << >>
    ELSE << ReportRow(Head(df)) >> \o ApplyReportRow(Tail(df))

export_channel_report ==
    /\ Len(ops) < MaxOps
    /\ report' = ApplyReportRow(SelectOrdered(channel_reporting))
    /\ ops' = Append(ops, << "export_channel_report" >>)
    /\ UNCHANGED dbVars
    /\ UNCHANGED reporting_at_start
    /\ UNCHANGED << journeyVars, sendVars, mainVars, validateVars >>

\* Rows an earlier run may have left in channel_reporting.
AggregateRow(ch, d, cost, ihc, rev) ==
    [ channel_name |-> ch, date |-> d, cost |-> cost, ihc |-> ihc, ihc_revenue |-> rev ]

StartReporting ==
    { EmptyBag,
      SetToBag({ AggregateRow("Social", 1, 0, 0, 0) }),
      SetToBag({ AggregateRow("Organic", 1, 100, 10, 10000) }) }

InitProcessor ==
    /\ \E ch \in {"Organic", "Paid"}, d \in Dates :
         session_sources =
            { SessionRow("s1", "u1", "Organic", 1, 0, <<1, 0, 1>>),
              SessionRow("s2", "u1", ch, d, 1, <<0, 1, 1>>) }
    /\ \E c1 \in { {}, { [session_id |-> "s1", cost |-> 100] } },
          c2 \in { { [session_id |-> "s2", cost |-> 0] },
                   { [session_id |-> "s2", cost |-> 200] } } :
         session_costs = c1 \cup c2
    /\ conversions = { ConversionRow("c1", "u1", 1, 1, 10000) }
    /\ attribution_customer_journey = << >>
    /\ channel_reporting \in StartReporting
    /\ reporting_at_start = channel_reporting
    /\ ops = << >>
    /\ report = << >>
    /\ JourneyIdle
    /\ SendIdle
    /\ MainIdle
    /\ ValidateIdle

NextProcessor == process_batch \/ update_channel_reporting \/ export_channel_report

SpecProcessor == InitProcessor /\ [][NextProcessor]_vars

----------------------------------------------------------------------------
(* attribution_processor.py: main                                          *)

\* send_to_api(journeys, retry_count=1, retry_delay=5): main passes the batch only.
DefaultRetryCount == 1

\* One call made by main: op is the callee, batch the number of the batch
\* the call belongs to (0 outside the batch loop).
Event(op, k) == [ op |-> op, batch |-> k ]

\* validate_dates returns True; otherwise it raises ValueError.
\* Variant: the two dates are not compared.
validate_dates_noCheck(sd, ed) == TRUE
validate_dates(sd, ed) == ~(Truthy(sd) /\ Truthy(ed) /\ sd[1] > ed[1])

\* How DatabaseSetup.setup_database can end.
SetupOutcomes == { "ready", "sql_file_missing", "sqlite_error" }

\* The value setup_database returns.
setup_database(outcome) == outcome = "ready"

\* The rows of a table once the statements of the schema-definition file
\* were executed: the file declares the tables and leaves stored rows alone.
ProvisionedRows(table) == table

\* CustomerJourneyBuilder._setup_database raises RuntimeError.
\* Variant: the returned value is not looked at.
SetupRaises_ignored(outcome) == FALSE
SetupRaises(outcome) == ~setup_database(outcome)

\* formatted_journeys[i : i + batch_size]
Min(a, b) == IF a <= b THEN a ELSE b
\* Variant: the slice is one record longer.
Slice_overlap(list, i, n) == SubSeq(list, i + 1, Min(i + n + 1, Len(list)))
Slice(list, i, n) == SubSeq(list, i + 1, Min(i + n, Len(list)))

\* if response: processor.process_batch(response); then the aggregate update.
\* Variant: a None response ends the run.
AfterSend_abortOnNone(result) == IF Truthy(result) THEN "process_batch" ELSE "aborted"
\* Variant: a None response goes on to the next batch at once.
AfterSend_noUpdateOnNone(result) == IF Truthy(result) THEN "process_batch" ELSE "next"
\* Variant: the response is not handed to process_batch.
AfterSend_dropResponse(result) == "update"
AfterSend(result) == IF Truthy(result) THEN "process_batch" ELSE "update"

\* A call that writes to the store returns, or raises; except Exception: raise
\* Variant: the exception is swallowed and the run goes on.
AfterStoreCall_swallowed(ok, next) == next
AfterStoreCall(ok, next) == IF ok THEN next ELSE "aborted"

main_validate ==
    /\ pc = "validate"
    /\ pc' = IF validate_dates(start_date, end_date) THEN "setup" ELSE "rejected"
    /\ UNCHANGED << validateVars, config_retry_count >>
    /\ UNCHANGED << batch_size, loop_i, events, submitted, results, log_at_start,
                    run_error >>
    /\ UNCHANGED << dbVars, journeyVars, sendVars, procVars >>

\* AttributionProcessor(...) and CustomerJourneyBuilder(db_path, sql_path)
main_setup ==
    /\ pc = "setup"
    /\ \E outcome \in SetupOutcomes :
         /\ run_error' = IF setup_database(outcome) THEN run_error ELSE "setup"
         /\ pc' = IF SetupRaises(outcome) THEN "aborted" ELSE "build"
         /\ IF outcome = "sql_file_missing"
            THEN UNCHANGED dbVars
            ELSE /\ session_sources' = ProvisionedRows(session_sources)
                 /\ session_costs' = ProvisionedRows(session_costs)
                 /\ conversions' = ProvisionedRows(conversions)
                 /\ attribution_customer_journey' =
                       ProvisionedRows(attribution_customer_journey)
                 /\ channel_reporting' = ProvisionedRows(channel_reporting)
    /\ events' = Append(events, Event("setup_database", 0))
    /\ UNCHANGED << validateVars, config_retry_count >>
    /\ UNCHANGED << batch_size, loop_i, submitted, results, log_at_start >>
    /\ UNCHANGED << journeyVars, sendVars, procVars >>

\* journeys_df = journey_builder.build_journeys(start_date=..., end_date=...)
main_build ==
    /\ pc = "build"
    /\ \E df \in Ordered(JourneyData(start_date, end_date)) : journeys_df' = df
    /\ jpc' = "built"
    /\ events' = Append(events, Event("build_journeys", 0))
    /\ pc' = "format"
    /\ UNCHANGED << start_date, end_date, formatted_journeys >>
    /\ UNCHANGED << validateVars, config_retry_count >>
    /\ UNCHANGED << batch_size, loop_i, submitted, results, log_at_start, run_error >>
    /\ UNCHANGED << dbVars, sendVars, procVars >>

\* formatted_journeys = processor.api_client.format_journey_data(journeys_df)
main_format ==
    /\ pc = "format"
    /\ formatted_journeys' = FormatJourneyData(journeys_df)
    /\ jpc' = "formatted"
    /\ events' = Append(events, Event("format_journey_data", 0))
    /\ loop_i' = 0
    /\ pc' = "loop"
    /\ UNCHANGED << start_date, end_date, journeys_df >>
    /\ UNCHANGED << validateVars, config_retry_count >>
    /\ UNCHANGED << batch_size, submitted, results, log_at_start, run_error >>
    /\ UNCHANGED << dbVars, sendVars, procVars >>

\* for i in range(0, total_journeys, batch_size): the test of the loop and,
\* inside it, batch = formatted_journeys[i : i + batch_size] and the call
\* processor.api_client.send_to_api(batch)
main_loop ==
    /\ pc = "loop"
    /\ IF loop_i < Len(formatted_journeys)
       THEN /\ submitted' = Append(submitted, Slice(formatted_journeys, loop_i, batch_size))
            /\ events' = Append(events, Event("send_to_api", Len(submitted) + 1))
            /\ retry_count' = DefaultRetryCount
            /\ attempt' = 0
            /\ responses' = << >>
            /\ sleep_calls' = 0
            /\ send_result' = NULL
            /\ spc' = "loop"
            /\ pc' = "sending"
       ELSE /\ pc' = "export"
            /\ UNCHANGED << submitted, events, sendVars >>
    /\ UNCHANGED << validateVars, config_retry_count >>
    /\ UNCHANGED << batch_size, loop_i, results, log_at_start, run_error >>
    /\ UNCHANGED << dbVars, journeyVars, procVars >>

\* response = <what send_to_api returned>; if response: ...
main_response ==
    /\ pc = "sending"
    /\ spc = "done"
    /\ results' = Append(results, send_result)
    /\ pc' = AfterSend(send_result)
    /\ spc' = "idle"
    /\ UNCHANGED << retry_count, attempt, responses, sleep_calls, send_result >>
    /\ UNCHANGED << validateVars, config_retry_count >>
    /\ UNCHANGED << batch_size, loop_i, events, submitted, log_at_start, run_error >>
    /\ UNCHANGED << dbVars, journeyVars, procVars >>

\* with sqlite3.connect(self.db_path) as conn: an exception inside the block
\* rolls the transaction back, so the table is as before the call and not as
\* the interrupted write would have left it.
\* Variant: the first row written before the exception stays.
RolledBack_firstRowKept(before, attempted) ==
    SubSeq(attempted, 1, Min(Len(before) + 1, Len(attempted)))
RolledBack(before, attempted) == before

\* processor.process_batch(response): the store may refuse the write, which
\* rolls the transaction back and raises.
main_process_batch ==
    /\ pc = "process_batch"
    /\ \E ok \in BOOLEAN :
         /\ ~ok => send_result[1].statusCode = 200
         /\ attribution_customer_journey' =
               IF ok THEN ProcessBatch(attribution_customer_journey, send_result[1])
               ELSE RolledBack(attribution_customer_journey,
                               ProcessBatch(attribution_customer_journey, send_result[1]))
         /\ run_error' = IF ok THEN run_error ELSE "persistence"
         /\ pc' = AfterStoreCall(ok, "update")
    /\ events' = Append(events, Event("process_batch", Len(submitted)))
    /\ UNCHANGED << session_sources, session_costs, conversions, channel_reporting >>
    /\ UNCHANGED << validateVars, config_retry_count >>
    /\ UNCHANGED << batch_size, loop_i, submitted, results, log_at_start >>
    /\ UNCHANGED << journeyVars, sendVars, procVars >>

\* processor.update_channel_reporting(), in every iteration
main_update ==
    /\ pc = "update"
    /\ \E ok \in BOOLEAN :
         /\ channel_reporting' =
               IF ok THEN InsertAll(channel_reporting, DailyChannels)
               ELSE channel_reporting
         /\ run_error' = IF ok THEN run_error ELSE "persistence"
         /\ pc' = AfterStoreCall(ok, "next")
    /\ events' = Append(events, Event("update_channel_reporting", Len(submitted)))
    /\ UNCHANGED << session_sources, session_costs, conversions,
                    attribution_customer_journey >>
    /\ UNCHANGED << validateVars, config_retry_count >>
    /\ UNCHANGED << batch_size, loop_i, submitted, results, log_at_start >>
    /\ UNCHANGED << journeyVars, sendVars, procVars >>

\* Variant: the report is exported at the end of every iteration.
main_next_exportEach ==
    /\ pc = "next"
    /\ loop_i' = loop_i + batch_size
    /\ pc' = "loop"
    /\ report' = ApplyReportRow(SelectOrdered(channel_reporting))
    /\ events' = Append(events, Event("export_channel_report", 0))
    /\ UNCHANGED << ops, reporting_at_start >>
    /\ UNCHANGED << validateVars, config_retry_count >>
    /\ UNCHANGED << batch_size, submitted, results, log_at_start, run_error >>
    /\ UNCHANGED << dbVars, journeyVars, sendVars >>
\* the next value of i
main_next ==
    /\ pc = "next"
    /\ loop_i' = loop_i + batch_size
    /\ pc' = "loop"
    /\ UNCHANGED << validateVars, config_retry_count >>
    /\ UNCHANGED << batch_size, events, submitted, results, log_at_start, run_error >>
    /\ UNCHANGED << dbVars, journeyVars, sendVars, procVars >>

\* Variant: the aggregate is recomputed before the report is written.
main_export_recompute ==
    /\ pc = "export"
    /\ channel_reporting' = InsertAll(channel_reporting, DailyChannels)
    /\ report' = ApplyReportRow(SelectOrdered(channel_reporting'))
    /\ events' = Append(events, Event("export_channel_report", 0))
    /\ pc' = "done"
    /\ UNCHANGED << session_sources, session_costs, conversions,
                    attribution_customer_journey >>
    /\ UNCHANGED << ops, reporting_at_start >>
    /\ UNCHANGED << validateVars, config_retry_count >>
    /\ UNCHANGED << batch_size, loop_i, submitted, results, log_at_start, run_error >>
    /\ UNCHANGED << journeyVars, sendVars >>
\* processor.export_channel_report(output_path)
main_export ==
    /\ pc = "export"
    /\ report' = ApplyReportRow(SelectOrdered(channel_reporting))
    /\ events' = Append(events, Event("export_channel_report", 0))
    /\ pc' = "done"
    /\ UNCHANGED << ops, reporting_at_start >>
    /\ UNCHANGED << validateVars, config_retry_count >>
    /\ UNCHANGED << batch_size, loop_i, submitted, results, log_at_start, run_error >>
    /\ UNCHANGED << dbVars, journeyVars, sendVars >>

\* Rows an earlier run may have left in attribution_customer_journey.
StartLog == { << >>, << AttributionRow(Attribution("c1", "s1", 5)) >> }

\* The store of a run: two sessions of one user, and either three
\* conversions that each have both sessions before them, or the first only.
InitMain ==
    /\ session_sources =
          { SessionRow("s1", "u1", "Organic", 1, 0, <<1, 0, 1>>),
            SessionRow("s2", "u1", "Paid", 1, 1, <<0, 1, 1>>) }
    /\ session_costs = { [session_id |-> "s1", cost |-> 100],
                         [session_id |-> "s2", cost |-> 200] }
    /\ conversions \in
          { { ConversionRow("c1", "u1", 1, 1, 10000) },
            { ConversionRow("c1", "u1", 1, 1, 10000),
              ConversionRow("c2", "u1", 2, 0, 2000),
              ConversionRow("c3", "u1", 2, 1, 3000) } }
    /\ attribution_customer_journey \in StartLog
    /\ log_at_start = attribution_customer_journey
    /\ channel_reporting \in StartReporting
    /\ reporting_at_start = channel_reporting
    /\ start_date \in OptDates
    /\ end_date \in OptDates
    /\ batch_size \in 1..MaxBatch
    /\ config_retry_count \in { 1, MaxRetry }
    /\ ValidateIdle
    /\ journeys_df = << >>
    /\ formatted_journeys = << >>
    /\ jpc = "start"
    /\ SendIdle
    /\ ops = << >>
    /\ report = << >>
    /\ pc = "validate"
    /\ loop_i = 0
    /\ events = << >>
    /\ submitted = << >>
    /\ results = << >>
    /\ run_error = "none"

\* send_sleep is left out: with retry_count = 1 the call never sleeps.
NextMain ==
    \/ main_validate \/ main_setup \/ main_build \/ main_format
    \/ main_loop \/ send_loop \/ send_post \/ main_response
    \/ main_process_batch \/ main_update \/ main_next \/ main_export

SpecMain == InitMain /\ [][NextMain]_vars

----------------------------------------------------------------------------
(* build_customer_journey.py: CustomerJourneyBuilder._validate_journeys    *)

\* A DataFrame is a set of column labels and a sequence of rows; a row maps
\* every column label to a cell, and a cell is NULL (None / NaN) or << v >>.
RequiredColumns ==
    { "conv_id", "user_id", "session_id", "channel_name",
      "holder_engagement", "closer_engagement", "impression_interaction" }

EngagementColumns ==
    { "holder_engagement", "closer_engagement", "impression_interaction" }

\* missing_cols = [col for col in required_columns if col not in df.columns]
MissingCols(df) == RequiredColumns \ df.columns

\* df[required_columns].isnull().sum().any()
NullCounts(df) ==
    \E k \in DOMAIN df.rows : \E col \in RequiredColumns : df.rows[k][col] = NULL

\* (~df[col].isin([0, 1])).any()
Invalid(df, col) ==
    \E k \in DOMAIN df.rows :
        ~(df.rows[k][col] # NULL /\ df.rows[k][col][1] \in { 0, 1 })

\* How _validate_journeys(df) ends: the warnings it logged, and whether it
\* returned or raised.  df[required_columns] raises KeyError when a label of
\* the list is not a column of df.
ValidateJourneys(df) ==
    LET missing == IF MissingCols(df) # {} THEN { "missing_columns" } ELSE {}
    IN IF MissingCols(df) # {}
       THEN [ returned |-> FALSE, raised |-> "KeyError", warnings |-> missing ]
       ELSE [ returned |-> TRUE, raised |-> "",
              warnings |->
                 missing
                 \cup (IF NullCounts(df) THEN { "null_values" } ELSE {})
                 \cup { col \in EngagementColumns : Invalid(df, col) } ]

validate_journeys ==
    /\ validation = NotValidated
    /\ validation' = ValidateJourneys(validated_df)
    /\ UNCHANGED validated_df
    /\ UNCHANGED << dbVars, journeyVars, sendVars, procVars, mainVars >>

\* Rows of one journey record with every column, before columns are dropped.
FullRows ==
    { << >> } \cup
    { << [ col \in RequiredColumns |->
             CASE col = "user_id" -> u
               [] col = "holder_engagement" -> h
               [] col = "closer_engagement" -> c
               [] col = "impression_interaction" -> << 1 >>
               [] col = "conv_id" -> << "c1" >>
               [] col = "session_id" -> << "s1" >>
               [] OTHER -> << "Organic" >> ] >> :
        u \in { << "u1" >>, NULL },
        h \in { << 0 >>, << 1 >>, << 2 >>, NULL },
        c \in { << 1 >>, << 5 >> } }

\* The frame with the columns cols of the rows.
Frame(cols, rows) ==
    [ columns |-> cols,
      rows |-> [ k \in DOMAIN rows |-> [ col \in cols |-> rows[k][col] ] ] ]

InitValidate ==
    /\ \E cols \in { RequiredColumns } \cup { RequiredColumns \ { col } : col \in RequiredColumns },
          rows \in FullRows :
         validated_df = Frame(cols, rows)
    /\ validation = NotValidated
    /\ DbEmpty
    /\ JourneyIdle
    /\ SendIdle
    /\ ProcIdle
    /\ MainIdle

NextValidate == validate_journeys

SpecValidate == InitValidate /\ [][NextValidate]_vars

----------------------------------------------------------------------------
(* Properties of the builder and the formatter                             *)

\* (date, time) pairs in lexicographic order
LexLeq(d1, t1, d2, t2) == d1 < d2 \/ (d1 = d2 /\ t1 <= t2)

Rows(df) == { df[i] : i \in DOMAIN df }

\* The sessions that qualify for conversion c: same user, not after it.
Qualifying(c) ==
    { s \in session_sources :
        /\ s.user_id = c.user_id
        /\ LexLeq(s.event_date, s.event_time, c.conv_date, c.conv_time) }

\* C1: every row returned by build_journeys has its session timestamp
\* (event_date, event_time) at or before the conversion timestamp
\* (conv_date, conv_time), and its time_to_conv is >= 0.
C1_Causality ==
    jpc # "start" =>
        \A r \in Rows(journeys_df) :
            /\ LexLeq(r.event_date, r.event_time, r.conv_date, r.conv_time)
            /\ r.time_to_conv >= 0

\* A journey was built while the store held a session of the same user that
\* comes after the conversion on the conversion's own day.
C1_Witness ==
    /\ jpc = "built"
    /\ journeys_df # << >>
    /\ \E c \in conversions, s \in session_sources :
          /\ c.user_id = s.user_id
          /\ s.event_date = c.conv_date
          /\ s.event_time > c.conv_time
          /\ \E r \in Rows(journeys_df) : r.conv_id = c.conv_id

\* C2: the rows returned by build_journeys are grouped by conv_id in
\* ascending conv_id order, and inside a group they are in ascending
\* (event_date, event_time) order.
C2_Ordering ==
    jpc # "start" =>
        \A i \in DOMAIN journeys_df : \A j \in DOMAIN journeys_df :
            i < j =>
                /\ Rank(ConvOrder, journeys_df[i].conv_id)
                      <= Rank(ConvOrder, journeys_df[j].conv_id)
                /\ journeys_df[i].conv_id = journeys_df[j].conv_id =>
                      LexLeq(journeys_df[i].event_date, journeys_df[i].event_time,
                             journeys_df[j].event_date, journeys_df[j].event_time)

\* Two conversions, the first with two sessions at different times, the
\* later of which is earlier than a session of the second conversion's.
C2_Witness ==
    /\ jpc = "built"
    /\ Len(journeys_df) >= 3
    /\ journeys_df[1].conv_id = "c1" /\ journeys_df[2].conv_id = "c1"
    /\ journeys_df[Len(journeys_df)].conv_id = "c2"
    /\ DateTime(journeys_df[1].event_date, journeys_df[1].event_time)
          < DateTime(journeys_df[2].event_date, journeys_df[2].event_time)
    /\ DateTime(journeys_df[3].event_date, journeys_df[3].event_time)
          < DateTime(journeys_df[2].event_date, journeys_df[2].event_time)

\* The rows of conversion cid in df, in the order of df.
RECURSIVE GroupOf(_, _)
GroupOf(df, cid) ==
    IF df = << >> THEN << >>
    ELSE IF Head(df).conv_id = cid THEN << Head(df) >> \o GroupOf(Tail(df), cid)
    ELSE GroupOf(Tail(df), cid)

\* C3: in the output of format_journey_data every conversion group has
\* exactly one record with conversion = 1, and it is the record of the last
\* session of the group in input order, whatever the engagement flags are.
C3_TerminalFlag ==
    jpc = "formatted" =>
        \A cid \in { r.conv_id : r \in Rows(journeys_df) } :
            LET group == GroupOf(journeys_df, cid)
                flagged == { k \in DOMAIN formatted_journeys :
                               /\ formatted_journeys[k].conversion_id = cid
                               /\ formatted_journeys[k].conversion = 1 }
            IN /\ Cardinality(flagged) = 1
               /\ \A k \in flagged :
                     formatted_journeys[k].session_id = group[Len(group)].session_id

\* C4: format_journey_data emits one record for every input row: as many
\* records as rows, and every input (conv_id, session_id) pair in exactly
\* one record.
C4_FlatPerSession ==
    jpc = "formatted" =>
        /\ Len(formatted_journeys) = Len(journeys_df)
        /\ \A r \in Rows(journeys_df) :
              Cardinality({ k \in DOMAIN formatted_journeys :
                              /\ formatted_journeys[k].conversion_id = r.conv_id
                              /\ formatted_journeys[k].session_id = r.session_id }) = 1

\* C9: with start_date and end_date both supplied, build_journeys returns
\* rows for exactly the conversions whose conv_date lies in the inclusive
\* range [start_date, end_date] and that have a qualifying session.
C9_DateFilter ==
    (jpc # "start" /\ start_date # NULL /\ end_date # NULL) =>
        { r.conv_id : r \in Rows(journeys_df) }
          = { c.conv_id : c \in
                { c \in conversions :
                    /\ start_date[1] <= c.conv_date
                    /\ c.conv_date <= end_date[1]
                    /\ Qualifying(c) # {} } }

\* start_date = end_date = the date of a conversion that appears, while
\* another conversion with a qualifying session lies outside the range.
C9_Witness ==
    /\ jpc = "built"
    /\ start_date # NULL /\ end_date = start_date
    /\ \E c \in conversions :
          /\ c.conv_date = start_date[1]
          /\ \E r \in Rows(journeys_df) : r.conv_id = c.conv_id
    /\ \E c \in conversions :
          /\ c.conv_date # start_date[1]
          /\ Qualifying(c) # {}
          /\ \A r \in Rows(journeys_df) : r.conv_id # c.conv_id

----------------------------------------------------------------------------
(* Properties of send_to_api                                               *)

C6_RetryRecovery ==
    \A j \in DOMAIN responses :
        (~Raises(responses[j]) /\ \A i \in 1..(j - 1) : Raises(responses[i])) =>
            /\ j <= retry_count
            /\ Len(responses) = j
            /\ spc = "done"
            /\ send_result = << responses[j].body >>
            /\ sleep_calls = j - 1

\* Two failures, then a success on the third and last attempt.
C6_Witness ==
    /\ spc = "done"
    /\ retry_count = 3
    /\ Len(responses) = 3
    /\ Raises(responses[1]) /\ Raises(responses[2])
    /\ responses[3].status_code = 200
    /\ send_result = << responses[3].body >>
    /\ sleep_calls = 2

----------------------------------------------------------------------------
(* Properties of the attribution processor                                 *)

LastOp == IF ops = << >> THEN "none" ELSE ops[Len(ops)][1]

\* C7: an update_channel_reporting that directly follows another one, with
\* no table changed in between, leaves channel_reporting with the contents
\* it had after the first.
C7_IdempotentReplace ==
    [][ ( /\ LastOp = "update_channel_reporting"
          /\ Len(ops') = Len(ops) + 1
          /\ ops'[Len(ops')][1] = "update_channel_reporting" )
        => channel_reporting' = channel_reporting ]_vars

\* Two updates in a row after an ingest, over a store whose aggregate table
\* already held a row before the first of them.
C7_Witness ==
    /\ Len(ops) = 3
    /\ ops[1][1] = "process_batch"
    /\ ops[2][1] = "update_channel_reporting"
    /\ ops[3][1] = "update_channel_reporting"
    /\ attribution_customer_journey # << >>
    /\ reporting_at_start # EmptyBag
    /\ channel_reporting # EmptyBag

\* C8: export_channel_report never divides by zero: a row with ihc = 0 is
\* exported with CPO = +infinity, a row with cost = 0 with ROAS = 0, every
\* other row with CPO = cost / ihc and ROAS = ihc_revenue / cost; and every
\* row of channel_reporting is exported.
C8_RatioEdgeCases ==
    /\ \A i \in DOMAIN report :
          LET r == report[i] IN
          /\ r.CPO # << 0, 0 >> /\ r.ROAS # << 0, 0 >>
          /\ r.ihc = 0 => r.CPO = Inf
          /\ r.cost = 0 => r.ROAS = Zero
          /\ r.ihc # 0 => r.CPO = << r.cost, r.ihc >>
          /\ r.cost # 0 => r.ROAS = << r.ihc_revenue, r.cost >>
    /\ LastOp = "export_channel_report" =>
          /\ Len(report) = BagCardinality(channel_reporting)
          /\ \A row \in BagToSet(channel_reporting) :
                \E i \in DOMAIN report :
                    /\ report[i].channel_name = row.channel_name
                    /\ report[i].date = row.date
                    /\ report[i].cost = row.cost
                    /\ report[i].ihc = row.ihc
                    /\ report[i].ihc_revenue = row.ihc_revenue

\* A report with a row whose ihc is 0 while its cost is not, a row whose
\* cost is 0 while its ihc is not, and so a row with both ratios finite.
C8_Witness ==
    /\ LastOp = "export_channel_report"
    /\ \E i \in DOMAIN report : report[i].ihc = 0 /\ report[i].cost > 0
    /\ \E i \in DOMAIN report : report[i].cost = 0 /\ report[i].ihc > 0

\* The store and the outcome of the end-to-end scenario.
ScenarioOutcome ==
    [ statusCode |-> 200,
      value |-> << Attribution("c1", "s1", 5), Attribution("c1", "s2", 5) >> ]

ScenarioDone ==
    /\ { [ s |-> ss.session_id, ch |-> ss.channel_name, d |-> ss.event_date ]
           : ss \in session_sources }
         = { [ s |-> "s1", ch |-> "Organic", d |-> 1 ],
             [ s |-> "s2", ch |-> "Paid", d |-> 1 ] }
    /\ session_costs = { [ session_id |-> "s1", cost |-> 100 ],
                         [ session_id |-> "s2", cost |-> 200 ] }
    /\ { [ c |-> c.conv_id, u |-> c.user_id, rev |-> c.revenue ] : c \in conversions }
         = { [ c |-> "c1", u |-> "u1", rev |-> 10000 ] }
    /\ reporting_at_start = EmptyBag
    /\ ops = << << "process_batch", ScenarioOutcome >>, << "update_channel_reporting" >> >>

\* C10: one conversion c1 (u1, revenue 1000), sessions s1 (Organic,
\* 2024-01-01, cost 10) and s2 (Paid, 2024-01-01, cost 20); after
\* process_batch of the success outcome (c1, s1, 0.5), (c1, s2, 0.5) and
\* update_channel_reporting, channel_reporting holds exactly the rows
\* (Organic, 2024-01-01, 10, 0.5, 500) and (Paid, 2024-01-01, 20, 0.5, 500).
C10_EndToEnd ==
    ScenarioDone =>
        channel_reporting =
            SetToBag({ AggregateRow("Organic", 1, 100, 5, 5000),
                       AggregateRow("Paid", 1, 200, 5, 5000) })

\* The scenario has been played.
C10_Witness == ScenarioDone /\ BagCardinality(channel_reporting) = 2

\* The step is a call process_batch(batch_response).
IsProcessBatchStep(last) == last[1] = "process_batch"

\* C11: process_batch with an outcome whose statusCode is not 200 changes
\* no table and nothing else of the store.
C11_FailedOutcomeNoOp ==
    [][ ( /\ Len(ops') = Len(ops) + 1
          /\ IsProcessBatchStep(ops'[Len(ops')])
          /\ ops'[Len(ops')][2].statusCode # 200 )
        => /\ attribution_customer_journey' = attribution_customer_journey
           /\ channel_reporting' = channel_reporting
           /\ UNCHANGED << session_sources, session_costs, conversions, report >> ]_vars

\* A failure outcome that carries rows has been processed on a log that
\* already held rows.
C11_Witness ==
    /\ Len(ops) >= 2
    /\ IsProcessBatchStep(ops[Len(ops)])
    /\ ops[Len(ops)][2].statusCode = 500
    /\ ops[Len(ops)][2].value # << >>
    /\ attribution_customer_journey # << >>

----------------------------------------------------------------------------
(* Properties of a run of main                                             *)

\* The number of batches the loop cuts the formatted list into.
NumBatches == (Len(formatted_journeys) + batch_size - 1) \div batch_size

\* Some batch of the run ended in the failure sentinel (send_to_api returned None).
SomeBatchFailed == \E k \in DOMAIN results : results[k] = NULL

\* C13: when the submission of a batch ends in the failure sentinel the run
\* does not abort: it ends early only because of a persistence error, it can
\* always take its next step, every batch of the list has been submitted
\* when the loop is left, and the run ends with the export.
C13_FaultIsolation ==
    SomeBatchFailed =>
        /\ pc = "aborted" => run_error = "persistence"
        /\ pc \notin { "done", "aborted" } => ENABLED NextMain
        /\ pc \in { "export", "done" } =>
              Len(submitted) = NumBatches /\ Len(results) = NumBatches
        /\ pc = "done" => events[Len(events)] = Event("export_channel_report", 0)

\* A finished run whose first batch failed and whose second batch was scored.
C13_Witness ==
    /\ pc = "done"
    /\ Len(results) >= 2
    /\ results[1] = NULL
    /\ results[2] # NULL
    /\ report # << >>

\* The rows the scoring service returned for the batches it scored, in the
\* order of the batches: a batch counts as scored when send_to_api returned
\* a body and the body's statusCode is 200.
RECURSIVE ScoredRows(_)
ScoredRows(rs) ==
    IF rs = << >> THEN << >>
    ELSE (IF Head(rs) # NULL /\ Head(rs)[1].statusCode = 200
          THEN [ k \in DOMAIN Head(rs)[1].value |->
                   [ conv_id |-> Head(rs)[1].value[k].conversion_id,
                     session_id |-> Head(rs)[1].value[k].session_id,
                     ihc |-> Head(rs)[1].value[k].ihc ] ]
          ELSE << >>)
         \o ScoredRows(Tail(rs))

\* C14: at the end of a run in which some batch failed, the Scored Attribution
\* log is the log before the run followed by exactly the rows returned for
\* the scored batches, the Channel Aggregate holds the recomputed row of
\* every (channel, date) of that log's join, and the report is the Channel
\* Aggregate with its two ratios.
C14_PartialRun ==
    (pc = "done" /\ SomeBatchFailed) =>
        /\ attribution_customer_journey = log_at_start \o ScoredRows(results)
        /\ \A row \in DailyChannels : CopiesIn(row, channel_reporting) = 1
        /\ report = ApplyReportRow(SelectOrdered(channel_reporting))

\* A finished run over a log that was not empty, with one batch failed and
\* another scored with rows.
C14_Witness ==
    /\ pc = "done"
    /\ log_at_start # << >>
    /\ SomeBatchFailed
    /\ ScoredRows(results) # << >>
    /\ report # << >>

\* The positions of the calls of op for batch k in the history of the run.
Calls(op, k) == { p \in DOMAIN events : events[p] = Event(op, k) }

\* The handling of batch k is over: a later batch was submitted or the loop was left.
Handled(k) == k < Len(submitted) \/ pc \in { "export", "done" }

\* C15: update_channel_reporting is called once in every batch iteration,
\* after the batch was submitted and after its process_batch call if there
\* is one, and before the next batch is submitted and before the export.
C15_UpdateEveryBatch ==
    /\ \A p \in DOMAIN events :
          events[p].op = "update_channel_reporting" => events[p].batch \in DOMAIN submitted
    /\ \A k \in DOMAIN submitted :
          /\ Cardinality(Calls("update_channel_reporting", k)) <= 1
          /\ Handled(k) => Cardinality(Calls("update_channel_reporting", k)) = 1
          /\ \A u \in Calls("update_channel_reporting", k) :
                /\ \A p \in Calls("send_to_api", k) : p < u
                /\ \A p \in Calls("process_batch", k) : p < u
                /\ \A p \in Calls("send_to_api", k + 1) : u < p
                /\ \A p \in Calls("export_channel_report", 0) : u < p

\* A finished run of at least two batches, the first failed and so without
\* ingestion, the second ingested.
C15_Witness ==
    /\ pc = "done"
    /\ Len(submitted) >= 2
    /\ results[1] = NULL
    /\ Calls("process_batch", 1) = {}
    /\ Calls("process_batch", 2) # {}
    /\ Calls("update_channel_reporting", 1) # {}

\* The (channel_name, date) pairs of the Session table.
SessionKeys == { << ss.channel_name, ss.event_date >> : ss \in session_sources }

\* Some update_channel_reporting call of the run has returned.
UpdatedOnce ==
    \E u \in DOMAIN events :
        /\ events[u].op = "update_channel_reporting"
        /\ ~(pc = "aborted" /\ u = Len(events))

\* C16, as claimed: once the batch loop has run its first update, the
\* Channel Aggregate equals the full join-and-group recompute over the
\* current tables in every state of the run.
C16_AlwaysFullRecompute ==
    UpdatedOnce => channel_reporting = SetToBag(DailyChannels)

\* The last store call of the run was an update_channel_reporting call that
\* returned: no process_batch call came after it.
FreshlyUpdated ==
    \E u \in DOMAIN events :
        /\ events[u].op = "update_channel_reporting"
        /\ \A p \in DOMAIN events :
              p > u => events[p].op \notin { "process_batch", "update_channel_reporting" }
        /\ ~(pc = "aborted" /\ u = Len(events))

\* C16, amended: after an update_channel_reporting call and until the next
\* process_batch call, the Channel Aggregate holds exactly one row for every
\* (channel_name, date) pair of the Session table, and it is the row of the
\* full recompute over the current tables; the rows of other pairs are the
\* ones the table held before the run.  A step that changes the Scored
\* Attribution log leaves the Channel Aggregate as it was.
C16_SnapshotPerUpdate ==
    /\ [](FreshlyUpdated =>
            /\ \A row \in DailyChannels : CopiesIn(row, channel_reporting) = 1
            /\ \A r \in BagToSet(channel_reporting) :
                  \/ r \in DailyChannels
                  \/ /\ << r.channel_name, r.date >> \notin SessionKeys
                     /\ CopiesIn(r, channel_reporting) = CopiesIn(r, reporting_at_start))
    /\ [][attribution_customer_journey' # attribution_customer_journey
            => channel_reporting' = channel_reporting]_vars

\* After the update of a second batch, with rows ingested in the run and a
\* row of an earlier run still in the table.
C16_Witness ==
    /\ FreshlyUpdated
    /\ Len(submitted) >= 2
    /\ Len(attribution_customer_journey) > Len(log_at_start)
    /\ channel_reporting # SetToBag(DailyChannels)

RECURSIVE Concat(_)
Concat(seqs) == IF seqs = << >> THEN << >> ELSE Head(seqs) \o Concat(Tail(seqs))

\* C17: the batches submitted so far are non-empty, hold at most batch_size
\* records and, put end to end, are a prefix of the formatted list, the whole
\* list once the loop is left; a batch is submitted only after the result of
\* the batch before it was received, ingested if there was one, and
\* followed by the aggregate update.
C17_BatchesInOrder ==
    /\ \A k \in DOMAIN submitted :
          /\ 1 <= Len(submitted[k]) /\ Len(submitted[k]) <= batch_size
          /\ k > 1 =>
                /\ Len(results) >= k - 1
                /\ \A p \in Calls("send_to_api", k) :
                      /\ \E u \in Calls("update_channel_reporting", k - 1) : u < p
                      /\ results[k - 1] # NULL =>
                            \E q \in Calls("process_batch", k - 1) : q < p
    /\ Len(Concat(submitted)) <= Len(formatted_journeys)
    /\ Concat(submitted) = SubSeq(formatted_journeys, 1, Len(Concat(submitted)))
    /\ pc \in { "export", "done" } => Concat(submitted) = formatted_journeys

\* A finished run that cut three records into a batch of two and a batch of one.
C17_Witness ==
    /\ pc = "done"
    /\ batch_size = 2
    /\ Len(formatted_journeys) = 3
    /\ Len(submitted) = 2
    /\ Len(submitted[1]) = 2 /\ Len(submitted[2]) = 1

\* The store and the report are as the run found them.
StoreUntouched ==
    /\ attribution_customer_journey = log_at_start
    /\ channel_reporting = reporting_at_start
    /\ report = << >>

\* C18: when both dates are given and start_date > end_date the run is
\* rejected before any stage: no call is made (no schema provisioning, no
\* journey building, no submission, no export) and the store is not written.
C18_RejectedDates ==
    (Truthy(start_date) /\ Truthy(end_date) /\ start_date[1] > end_date[1]) =>
        /\ pc \in { "validate", "rejected" }
        /\ events = << >>
        /\ journeys_df = << >> /\ formatted_journeys = << >>
        /\ submitted = << >> /\ spc = "idle"
        /\ StoreUntouched

\* A run with start_date after end_date that was rejected.
C18_Witness ==
    /\ pc = "rejected"
    /\ Truthy(start_date) /\ Truthy(end_date)
    /\ start_date[1] > end_date[1]

\* C19: when setup_database returns False the run aborts in the constructor
\* of the builder: the only call made is the provisioning, no journey is
\* built, no batch is submitted, the Scored Attribution log and the Channel
\* Aggregate are not written and nothing is exported.
C19_SetupFailure ==
    run_error = "setup" =>
        /\ pc = "aborted"
        /\ events = << Event("setup_database", 0) >>
        /\ journeys_df = << >> /\ formatted_journeys = << >>
        /\ submitted = << >> /\ spc = "idle"
        /\ StoreUntouched

\* A run aborted by a failed provisioning, over a store that holds rows a
\* build would have returned.
C19_Witness ==
    /\ pc = "aborted"
    /\ run_error = "setup"
    /\ JourneyData(start_date, end_date) # {}

\* C20: when process_batch or update_channel_reporting raises a persistence
\* error the run aborts: the failing call is the last call of the run, made
\* for the last batch submitted, and no export is made.
C20_PersistenceAbort ==
    run_error = "persistence" =>
        /\ pc = "aborted"
        /\ events[Len(events)].op \in { "process_batch", "update_channel_reporting" }
        /\ events[Len(events)].batch = Len(submitted)
        /\ Len(results) = Len(submitted)
        /\ Calls("export_channel_report", 0) = {}
        /\ report = << >>

\* A run aborted by process_batch while batches were left to submit.
C20_Witness ==
    /\ pc = "aborted"
    /\ run_error = "persistence"
    /\ events[Len(events)].op = "process_batch"
    /\ Len(submitted) < NumBatches

----------------------------------------------------------------------------
(* Properties of _validate_journeys                                        *)

\* C21: _validate_journeys never raises: for every frame, also one that
\* lacks a required column, holds a null in a required column or holds an
\* engagement flag outside {0, 1}, the call returns normally.
C21_ValidationNeverRaises ==
    validation # NotValidated => validation.returned /\ validation.raised = ""

----------------------------------------------------------------------------
(* Further properties of send_to_api                                       *)

\* The response is the success response of the service: HTTP status 200 and
\* a body whose statusCode is 200.
IsSuccessResponse(r) ==
    r.kind = "response" /\ r.status_code = 200 /\ r.body.statusCode = 200

\* C22: every response that is not a statusCode 200 response counts as a
\* failed attempt and is retried: the call returns a body only for a
\* statusCode 200 response, and an attempt that got another response ends
\* the call only when it was the last of the retry_count attempts.
C22_Non200Retried ==
    (spc = "done" /\ responses # << >>) =>
        /\ send_result # NULL => IsSuccessResponse(responses[Len(responses)])
        /\ ~IsSuccessResponse(responses[Len(responses)]) =>
              (Len(responses) = retry_count /\ send_result = NULL)

----------------------------------------------------------------------------
(* Further properties of the attribution processor                         *)

\* The sessions of channel ch on day d.
SessionsOf(ch, d) ==
    { ss \in session_sources : ss.channel_name = ch /\ ss.event_date = d }

\* The sum of the costs of the sessions, each session once, none counting 0.
RECURSIVE CostOnce(_)
CostOnce(sessions) ==
    IF sessions = {} THEN 0
    ELSE LET ss == CHOOSE x \in sessions : TRUE
         IN Coalesce(CostOf(ss.session_id), 0) + CostOnce(sessions \ {ss})

\* The Scored Attribution rows of the log that refer to one of the sessions.
LogRowsOf(log, sessions) ==
    SelectSeq(log, LAMBDA a : \E ss \in sessions : ss.session_id = a.session_id)

RECURSIVE IhcSum(_)
IhcSum(rows) == IF rows = << >> THEN 0 ELSE Head(rows).ihc + IhcSum(Tail(rows))

\* ihc times the revenue of the row's conversion, 0 when it has none.
RECURSIVE IhcRevenueSum(_)
IhcRevenueSum(rows) ==
    IF rows = << >> THEN 0
    ELSE (IF \E c \in conversions : c.conv_id = Head(rows).conv_id
          THEN (Head(rows).ihc
                * (CHOOSE c \in conversions : c.conv_id = Head(rows).conv_id).revenue) \div 10
          ELSE 0)
         + IhcRevenueSum(Tail(rows))

\* C23: after update_channel_reporting the row of every (channel, date) of
\* the Session table has as cost the sum of the costs of its sessions, each
\* session counted once whatever number of log rows refer to it, as ihc the
\* sum of ihc over the log rows of its sessions, and as ihc_revenue the sum
\* of ihc times revenue over the same rows.
C23_CostCountedOnce ==
    LastOp = "update_channel_reporting" =>
        \A row \in BagToSet(channel_reporting) :
            SessionsOf(row.channel_name, row.date) # {} =>
                LET sessions == SessionsOf(row.channel_name, row.date)
                    rows == LogRowsOf(attribution_customer_journey, sessions)
                IN /\ row.cost = CostOnce(sessions)
                   /\ row.ihc = IhcSum(rows)
                   /\ row.ihc_revenue = IhcRevenueSum(rows)

\* C24: after update_channel_reporting the Channel Aggregate holds exactly
\* one row for every (channel_name, date) pair of the Session table and no
\* other row: a row stored before the call under a pair that the join does
\* not produce is gone.
C24_FullReplace ==
    LastOp = "update_channel_reporting" =>
        /\ \A k \in SessionKeys :
              Cardinality({ r \in BagToSet(channel_reporting) :
                              << r.channel_name, r.date >> = k }) = 1
        /\ \A r \in BagToSet(channel_reporting) :
              /\ CopiesIn(r, channel_reporting) = 1
              /\ << r.channel_name, r.date >> \in SessionKeys

----------------------------------------------------------------------------
(* Further properties of a run of main                                     *)

\* C25: the submission of a batch uses the configured retry policy: the call
\* is made with the configured retry_count, and a batch is dropped only
\* after retry_count attempts with a sleep between them.
C25_ConfiguredRetry ==
    /\ pc = "sending" => retry_count = config_retry_count
    /\ (pc = "sending" /\ spc = "done" /\ send_result = NULL) =>
          /\ Len(responses) = config_retry_count
          /\ sleep_calls = config_retry_count - 1

\* The ihc that outcome b gives to the sessions of channel ch on day d.
OutcomeIhc(b, ch, d) ==
    IhcSum(SelectSeq(b.value, LAMBDA a :
              \E ss \in SessionsOf(ch, d) : ss.session_id = a.session_id))

\* The calls so far are the ones of the sequence, made on an empty log.
Played(calls) == ops = calls

StageKey(e) ==
    CASE e.op = "setup_database" -> << 0, 0, 0 >>
      [] e.op = "build_journeys" -> << 1, 0, 0 >>
      [] e.op = "format_journey_data" -> << 2, 0, 0 >>
      [] e.op = "send_to_api" -> << 3, e.batch, 1 >>
      [] e.op = "process_batch" -> << 3, e.batch, 2 >>
      [] e.op = "update_channel_reporting" -> << 3, e.batch, 3 >>
      [] OTHER -> << 4, 0, 0 >>

KeyBefore(a, b) ==
    \/ a[1] < b[1]
    \/ a[1] = b[1] /\ a[2] < b[2]
    \/ a[1] = b[1] /\ a[2] = b[2] /\ a[3] < b[3]

\* C27: the calls of a run come in the order build, format, then for each
\* batch in turn submit, ingest, recompute, then export; the export is
\* never followed by another call, and a run that does not abort ends with
\* exactly one export, which comes right after the update of the last batch
\* and writes the report from the Channel Aggregate of that state.
C27_StageOrder ==
    /\ \A p \in DOMAIN events : \A q \in DOMAIN events :
          p < q => KeyBefore(StageKey(events[p]), StageKey(events[q]))
    /\ pc = "done" =>
          /\ Cardinality(Calls("export_channel_report", 0)) = 1
          /\ events[Len(events)] = Event("export_channel_report", 0)
          /\ Len(submitted) = NumBatches
          /\ NumBatches > 0 =>
                events[Len(events) - 1] = Event("update_channel_reporting", NumBatches)
          /\ report = ApplyReportRow(SelectOrdered(channel_reporting))

\* A finished run of two batches, both ingested.
C27_Witness ==
    /\ pc = "done"
    /\ Len(submitted) = 2
    /\ Calls("process_batch", 1) # {}
    /\ Calls("process_batch", 2) # {}
    /\ report # << >>

\* The log before the run followed by the rows of the scored ones among the
\* first j batches.
LogAfter(j) == log_at_start \o ScoredRows(SubSeq(results, 1, j))

\* The cost that the join gives the sessions over the log: a session's cost
\* once for every log row that refers to it, once if none does.
RECURSIVE JoinCost(_, _)
JoinCost(sessions, log) ==
    IF sessions = {} THEN 0
    ELSE LET ss == CHOOSE x \in sessions : TRUE
             n == Len(LogRowsOf(log, {ss}))
         IN Coalesce(CostOf(ss.session_id), 0) * (IF n = 0 THEN 1 ELSE n)
            + JoinCost(sessions \ {ss}, log)

\* The full join-and-group recompute over the log.
RecomputeOver(log) ==
    { [ channel_name |-> k[1], date |-> k[2],
        cost |-> JoinCost(SessionsOf(k[1], k[2]), log),
        ihc |-> IhcSum(LogRowsOf(log, SessionsOf(k[1], k[2]))),
        ihc_revenue |-> IhcRevenueSum(LogRowsOf(log, SessionsOf(k[1], k[2]))) ]
      : k \in SessionKeys }

\* The log holds, for every batch, all of its rows or none.
WholeBatchesOnly == \E j \in 0..Len(results) : attribution_customer_journey = LogAfter(j)

\* The run has called process_batch.
IngestionStarted == \E p \in DOMAIN events : events[p].op = "process_batch"

\* C28, as claimed: wherever the run stops once ingestion has started, the
\* log holds whole batches only and the Channel Aggregate equals the full
\* recompute over a log of whole batches.
C28_NoTornWrite ==
    IngestionStarted =>
        /\ WholeBatchesOnly
        /\ \E j \in 0..Len(results) :
              channel_reporting = SetToBag(RecomputeOver(LogAfter(j)))

\* C28, amended: wherever the run stops, the log holds whole batches only;
\* until the first update_channel_reporting of the run has returned the
\* Channel Aggregate is the table the run found, and from then on the row
\* of every (channel_name, date) pair of the Session table is the row of the
\* full recompute over a log of whole batches.
C28_AtomicBatches ==
    /\ WholeBatchesOnly
    /\ ~UpdatedOnce => channel_reporting = reporting_at_start
    /\ UpdatedOnce =>
          \E j \in 0..Len(results) :
              \A row \in RecomputeOver(LogAfter(j)) : CopiesIn(row, channel_reporting) = 1

\* A run aborted inside the ingestion of a batch of two rows, after an
\* earlier batch was ingested and aggregated.
C28_Witness ==
    /\ pc = "aborted"
    /\ run_error = "persistence"
    /\ events[Len(events)].op = "process_batch"
    /\ Len(ScoredRows(<< results[Len(results)] >>)) = 2
    /\ Len(attribution_customer_journey) > Len(log_at_start)
    /\ UpdatedOnce

\* format_journey_data has returned the empty list.
NothingToSubmit == jpc = "formatted" /\ formatted_journeys = << >>

\* C29: when the formatted list is empty the run submits no batch, ingests
\* nothing and never calls update_channel_reporting, so the store stays as
\* the run found it; the run still ends with exactly one export, whose
\* report is the Channel Aggregate of before the run.
C29_EmptyRun ==
    NothingToSubmit =>
        /\ pc \in { "loop", "export", "done" }
        /\ submitted = << >> /\ results = << >> /\ spc = "idle"
        /\ \A p \in DOMAIN events :
              events[p].op \notin { "send_to_api", "process_batch",
                                    "update_channel_reporting" }
        /\ attribution_customer_journey = log_at_start
        /\ channel_reporting = reporting_at_start
        /\ pc = "done" =>
              /\ Cardinality(Calls("export_channel_report", 0)) = 1
              /\ report = ApplyReportRow(SelectOrdered(reporting_at_start))

\* A finished run whose date range excluded every conversion, over an
\* aggregate table that is not the recompute of the current data.
C29_Witness ==
    /\ NothingToSubmit
    /\ pc = "done"
    /\ conversions # {}
    /\ Truthy(start_date) /\ Truthy(end_date)
    /\ reporting_at_start # SetToBag(DailyChannels)
    /\ Len(report) = BagCardinality(reporting_at_start)

====
